---- MODULE Spec2Model ----
(***************************************************************************)
(* A model of src/main.py: the FastAPI chat endpoint that forwards one     *)
(* question to the Groq chat-completion API (chat, call_groq) and the      *)
(* credential lookup it uses (load_api_key).                               *)
(*                                                                         *)
(* Python str values the code inspects character by character (the         *)
(* question, the environment variable, the lines of the key files) are     *)
(* sequences of one-character strings.  Other text (response bodies,       *)
(* details, answers) is a sequence of fragments, so that an f-string is    *)
(* the concatenation of its parts and the empty string is << >>.           *)
(* JSON values are tagged records [t, v].                                  *)
(***************************************************************************)
EXTENDS Integers, Sequences, FiniteSets, TLC

VARIABLES
    env,        \* os.environ's GROQ_API_KEY: [set, val]
    files,      \* <<api_key.env, .env>>, each [exists, lines]
    pc,         \* where the handler of the current POST /chat is
    question,   \* req.question as posted
    apiKey,     \* api_key of call_groq
    lookups,    \* the load_api_key results of the current request, in order
    outbound,   \* the requests handed to urlopen by the current request
    provider,   \* what the provider did with the outbound request
    reply,      \* the HTTP response of POST /chat
    served      \* requests answered so far

vars == <<env, files, pc, question, apiKey, lookups, outbound, provider, reply, served>>

-----------------------------------------------------------------------------
(* Bounds of the model *)

MaxRequests == 2
MaxQLen == 2
MaxLines == 2

-----------------------------------------------------------------------------
(* str methods *)

Whitespace == {" ", "\t", "\n"}

RECURSIVE LStripSet(_, _)
LStripSet(s, cs) ==
    IF s # << >> /\ Head(s) \in cs THEN LStripSet(Tail(s), cs) ELSE s

RECURSIVE RStripSet(_, _)
RStripSet(s, cs) ==
    IF s # << >> /\ s[Len(s)] \in cs
    THEN RStripSet(SubSeq(s, 1, Len(s) - 1), cs)
    ELSE s

\* s.strip(chars)
StripChars(s, cs) == RStripSet(LStripSet(s, cs), cs)

\* s.strip()
Strip(s) == StripChars(s, Whitespace)

LowerChar(c) ==
    CASE c = "Q" -> "q"
      [] c = "U" -> "u"
      [] c = "I" -> "i"
      [] c = "T" -> "t"
      [] c = "A" -> "a"
      [] OTHER -> c

\* s.lower()
Lower(s) == [i \in 1..Len(s) |-> LowerChar(s[i])]

\* s.startswith(p)
StartsWith(s, p) == Len(s) >= Len(p) /\ SubSeq(s, 1, Len(p)) = p

RECURSIVE AfterFirst(_, _)
\* s.split(c, 1)[1], for an s that holds c
AfterFirst(s, c) ==
    IF s = << >> THEN << >>
    ELSE IF Head(s) = c THEN Tail(s)
    ELSE AfterFirst(Tail(s), c)

-----------------------------------------------------------------------------
(* load_api_key *)

KeyAssign == <<"G", "R", "O", "Q", "_", "A", "P", "I", "_", "K", "E", "Y", "=">>
GskPrefix == <<"g", "s", "k", "_">>
Quotes == {"\"", "'"}

NoMatch == [found |-> FALSE, key |-> << >>, nread |-> 0]

\* the value returned for a GROQ_API_KEY= line `raw`
AssignValue(raw) == StripChars(Strip(AfterFirst(raw, "=")), Quotes)

RECURSIVE ScanLinesLast(_, _)
\* a scan that does not stop at a match: the last matching line wins
ScanLinesLast(lines, i) ==
    IF i > Len(lines) THEN NoMatch
    ELSE LET raw == Strip(lines[i])
             rest == ScanLinesLast(lines, i + 1)
         IN  IF rest.found THEN rest
             ELSE IF raw = << >> \/ StartsWith(raw, <<"#">>) THEN rest
             ELSE IF StartsWith(raw, KeyAssign)
                  THEN [found |-> TRUE, key |-> AssignValue(raw), nread |-> Len(lines)]
             ELSE IF StartsWith(raw, GskPrefix)
                  THEN [found |-> TRUE, key |-> raw, nread |-> Len(lines)]
             ELSE rest

RECURSIVE ScanLines(_, _)
\* the loop over the lines of one file, from line i on: whether it returned,
\* what it returned, and how many lines of the file it read
ScanLines(lines, i) ==
    IF i > Len(lines) THEN [NoMatch EXCEPT !.nread = Len(lines)]
    ELSE LET raw == Strip(lines[i])
         IN  IF raw = << >> \/ StartsWith(raw, <<"#">>)
             THEN ScanLines(lines, i + 1)
             ELSE IF StartsWith(raw, KeyAssign)
                  THEN [found |-> TRUE, key |-> AssignValue(raw), nread |-> i]
             ELSE IF StartsWith(raw, GskPrefix)
                  THEN [found |-> TRUE, key |-> raw, nread |-> i]
             ELSE ScanLines(lines, i + 1)

\* the scan of one file: a file that does not exist is skipped unread
ScanFile(f) ==
    IF ~f.exists THEN NoMatch ELSE ScanLines(f.lines, 1)

\* the loop over ("api_key.env", ".env"): the key, and the number of lines
\* read of each file
ScanFiles(fs) ==
    LET a == ScanFile(fs[1])
    IN  IF a.found
        THEN [key |-> a.key, found |-> TRUE, reads |-> <<a.nread, 0>>]
        ELSE LET b == ScanFile(fs[2])
             IN  [key |-> b.key, found |-> b.found, reads |-> <<a.nread, b.nread>>]

\* load_api_key(): the returned key, whether the environment supplied it, and
\* the lines read of each file
LoadApiKey(e, fs) ==
    IF e.set /\ e.val # << >>
    THEN [key |-> Strip(e.val), fromEnv |-> TRUE, reads |-> <<0, 0>>]
    ELSE LET r == ScanFiles(fs)
         IN  [key |-> r.key, fromEnv |-> FALSE, reads |-> r.reads]

-----------------------------------------------------------------------------
(* JSON values, and the Python operations the code applies to them *)

Null == [t |-> "null"]
Absent == [t |-> "absent"]
Str(s) == [t |-> "str", v |-> s]
Num(n) == [t |-> "num", v |-> n]
Bool(b) == [t |-> "bool", v |-> b]
Arr(a) == [t |-> "arr", v |-> a]
Obj(r) == [t |-> "obj", v |-> r]
EmptyObj == Obj(<< >>)

\* a one-fragment text; the empty text has no fragment
Text(x) == IF x = "" THEN << >> ELSE <<x>>

\* bool(v)
Truthy(v) ==
    CASE v.t = "null" -> FALSE
      [] v.t = "str" -> v.v # << >>
      [] v.t = "num" -> v.v # 0
      [] v.t = "bool" -> v.v
      [] v.t = "arr" -> Len(v.v) > 0
      [] v.t = "obj" -> DOMAIN v.v # {}

\* d.get(k, default) of a dict d
Get(d, k, default) == IF k \in DOMAIN d.v THEN d.v[k] ELSE default

\* the response bodies the provider is taken to send
BodyHello == "{\"choices\":[{\"message\":{\"role\":\"assistant\",\"content\":\"Hello\"}}]}"
BodyTwoChoices == "{\"choices\":[{\"message\":{\"content\":\"First\"}},{\"message\":{\"content\":\"Second\"}}]}"
BodyNoChoices == "{\"choices\":[]}"
BodyChoicesMissing == "{\"id\":\"x\"}"
BodyChoicesNull == "{\"choices\":null}"
BodyChoicesObject == "{\"choices\":{\"a\":1}}"
BodyContentEmpty == "{\"choices\":[{\"message\":{\"role\":\"assistant\",\"content\":\"\"}}]}"
BodyContentMissing == "{\"choices\":[{\"message\":{\"role\":\"assistant\"}}]}"
BodyContentNull == "{\"choices\":[{\"message\":{\"content\":null}}]}"
BodyMessageMissing == "{\"choices\":[{\"index\":0}]}"
BodyMessageNull == "{\"choices\":[{\"message\":null}]}"
BodyChoiceNull == "{\"choices\":[null]}"
BodyArray == "[]"
BodyHtml == "<html>Bad Gateway</html>"
BodyBlank == ""
BodyRateLimited == "{\"error\":{\"message\":\"rate limited\"}}"
BodyErrorMessageEmpty == "{\"error\":{\"message\":\"\"}}"
BodyErrorNoMessage == "{\"error\":{\"type\":\"x\"}}"
BodyErrorString == "{\"error\":\"denied\"}"
BodyErrorNull == "{\"error\":null}"
BodyTopMessage == "{\"message\":\"top level\"}"
BodyBothMessages == "{\"error\":{\"message\":\"inner\"},\"message\":\"outer\"}"

Bodies ==
    {BodyHello, BodyTwoChoices, BodyNoChoices, BodyChoicesMissing, BodyChoicesNull,
     BodyChoicesObject, BodyContentEmpty, BodyContentMissing, BodyContentNull,
     BodyMessageMissing, BodyMessageNull, BodyChoiceNull, BodyArray, BodyHtml,
     BodyBlank, BodyRateLimited, BodyErrorMessageEmpty, BodyErrorNoMessage,
     BodyErrorString, BodyErrorNull, BodyTopMessage, BodyBothMessages}

Choice(content) == Obj([message |-> Obj([content |-> content])])
RoleChoice(r) == Obj([message |-> Obj(r)])

\* json.loads(raw): the parsed value, or exc = "JSONDecodeError"
JsonLoads(raw) ==
    LET ok(v) == [exc |-> "", val |-> v]
    IN  CASE raw = BodyHello ->
               ok(Obj([choices |-> Arr(<<RoleChoice([role |-> Str(Text("assistant")),
                                                     content |-> Str(Text("Hello"))])>>)]))
          [] raw = BodyTwoChoices ->
               ok(Obj([choices |-> Arr(<<Choice(Str(Text("First"))),
                                         Choice(Str(Text("Second")))>>)]))
          [] raw = BodyNoChoices -> ok(Obj([choices |-> Arr(<< >>)]))
          [] raw = BodyChoicesMissing -> ok(Obj([id |-> Str(Text("x"))]))
          [] raw = BodyChoicesNull -> ok(Obj([choices |-> Null]))
          [] raw = BodyChoicesObject -> ok(Obj([choices |-> Obj([a |-> Num(1)])]))
          [] raw = BodyContentEmpty ->
               ok(Obj([choices |-> Arr(<<RoleChoice([role |-> Str(Text("assistant")),
                                                     content |-> Str(Text(""))])>>)]))
          [] raw = BodyContentMissing ->
               ok(Obj([choices |-> Arr(<<RoleChoice([role |-> Str(Text("assistant"))])>>)]))
          [] raw = BodyContentNull -> ok(Obj([choices |-> Arr(<<Choice(Null)>>)]))
          [] raw = BodyMessageMissing ->
               ok(Obj([choices |-> Arr(<<Obj([index |-> Num(0)])>>)]))
          [] raw = BodyMessageNull ->
               ok(Obj([choices |-> Arr(<<Obj([message |-> Null])>>)]))
          [] raw = BodyChoiceNull -> ok(Obj([choices |-> Arr(<<Null>>)]))
          [] raw = BodyArray -> ok(Arr(<< >>))
          [] raw = BodyRateLimited ->
               ok(Obj([error |-> Obj([message |-> Str(Text("rate limited"))])]))
          [] raw = BodyErrorMessageEmpty ->
               ok(Obj([error |-> Obj([message |-> Str(Text(""))])]))
          [] raw = BodyErrorNoMessage ->
               ok(Obj([error |-> Obj([type |-> Str(Text("x"))])]))
          [] raw = BodyErrorString -> ok(Obj([error |-> Str(Text("denied"))]))
          [] raw = BodyErrorNull -> ok(Obj([error |-> Null]))
          [] raw = BodyTopMessage -> ok(Obj([message |-> Str(Text("top level"))]))
          [] raw = BodyBothMessages ->
               ok(Obj([error |-> Obj([message |-> Str(Text("inner"))]),
                       message |-> Str(Text("outer"))]))
          [] OTHER -> [exc |-> "JSONDecodeError", val |-> Null]

-----------------------------------------------------------------------------
(* call_groq *)

API_URL == "https://api.groq.com/openai/v1/chat/completions"
Timeout == 120
Temperature == 1
MaxCompletionTokens == 8192
TopP == 1

Framing == Obj([role |-> Str(Text("assistant")),
                content |-> Str(Text("Be a straightforward assistant"))])
UserMessage(q) == Obj([role |-> Str(Text("user")), content |-> Str(q)])

\* a payload with the two messages swapped
BuildPayloadUserFirst(q) ==
    Obj([messages |-> Arr(<<UserMessage(q), Framing>>),
         model |-> Str(Text("openai/gpt-oss-120b")),
         temperature |-> Num(Temperature),
         max_completion_tokens |-> Num(MaxCompletionTokens),
         top_p |-> Num(TopP),
         stream |-> Bool(FALSE),
         reasoning_effort |-> Str(Text("medium")),
         stop |-> Null])

\* the payload dict of call_groq(q), as the JSON document json.dumps writes
BuildPayload(q) ==
    Obj([messages |-> Arr(<<Framing, UserMessage(q)>>),
         model |-> Str(Text("openai/gpt-oss-120b")),
         temperature |-> Num(Temperature),
         max_completion_tokens |-> Num(MaxCompletionTokens),
         top_p |-> Num(TopP),
         stream |-> Bool(FALSE),
         reasoning_effort |-> Str(Text("medium")),
         stop |-> Null])

Bearer == <<"B", "e", "a", "r", "e", "r", " ">>

\* the urllib.request.Request of call_groq(q) with the key `key`
BuildRequest(q, key) ==
    [url |-> API_URL,
     method |-> "POST",
     headers |-> [ContentType |-> "application/json",
                  Authorization |-> Bearer \o key],
     data |-> BuildPayload(q),
     timeout |-> Timeout]

NoChoicesText == Str(Text("No response choices returned."))
EmptyResponseText == Str(Text("(Empty response)"))

Returned(v) == [exc |-> "", val |-> v]
Raised(e) == [exc |-> e, val |-> Null]

\* choices[0] of a truthy `choices`
FirstOf(choices) ==
    CASE choices.t = "arr" -> Returned(choices.v[1])
      [] choices.t = "obj" -> Raised("KeyError")
      [] choices.t = "str" -> Returned(Str(choices.v))
      [] OTHER -> Raised("TypeError")

\* a call_groq that puts the raw body into the no-choices text
ExtractAnswerEchoRaw(data, raw) ==
    IF data.t # "obj" THEN Raised("AttributeError")
    ELSE LET choices == Get(data, "choices", Arr(<< >>))
         IN  IF ~Truthy(choices)
             THEN Returned(Str(Text("No response choices returned: ") \o Text(raw)))
             ELSE Returned(EmptyResponseText)

\* a call_groq that reads the last choice and has no placeholder
ExtractAnswerLastChoice(data, raw) ==
    IF data.t # "obj" THEN Raised("AttributeError")
    ELSE LET choices == Get(data, "choices", Arr(<< >>))
         IN  IF ~Truthy(choices) THEN Returned(NoChoicesText)
             ELSE IF choices.t # "arr" THEN Raised("TypeError")
             ELSE LET last == choices.v[Len(choices.v)]
                  IN  IF last.t # "obj" THEN Raised("AttributeError")
                      ELSE LET message == Get(last, "message", EmptyObj)
                           IN  IF message.t # "obj" THEN Raised("AttributeError")
                               ELSE Returned(Get(message, "content", Str(<< >>)))

\* the tail of call_groq, from the parsed `data` on: the returned answer
\* or the exception raised
ExtractAnswer(data, raw) ==
    IF data.t # "obj" THEN Raised("AttributeError")
    ELSE LET choices == Get(data, "choices", Arr(<< >>))
         IN  IF ~Truthy(choices) THEN Returned(NoChoicesText)
             ELSE LET first == FirstOf(choices)
                  IN  IF first.exc # "" THEN first
                      ELSE IF first.val.t # "obj" THEN Raised("AttributeError")
                      ELSE LET message == Get(first.val, "message", EmptyObj)
                           IN  IF message.t # "obj" THEN Raised("AttributeError")
                               ELSE LET content == Get(message, "content", Str(<< >>))
                                    IN  IF Truthy(content)
                                        THEN Returned(content)
                                        ELSE Returned(EmptyResponseText)

\* json.loads(response.read().decode("utf-8")) and the rest of call_groq
ParseCompletion(raw) ==
    LET data == JsonLoads(raw)
    IN  IF data.exc # "" THEN Raised(data.exc) ELSE ExtractAnswer(data.val, raw)

-----------------------------------------------------------------------------
(* chat: the HTTP responses of POST /chat *)

\* a returned dict: 200 with {"answer", "ended"}
Success(answer, ended) ==
    [status |-> 200, answer |-> answer, ended |-> Bool(ended), detail |-> Absent,
     exc |-> ""]

\* raise HTTPException(status_code, detail): that status with {"detail"}
HttpException(status, detail) ==
    [status |-> status, answer |-> Absent, ended |-> Absent, detail |-> detail,
     exc |-> "HTTPException"]

\* an exception no handler of chat catches: the server's 500 page, no detail
Unhandled(e) ==
    [status |-> 500, answer |-> Absent, ended |-> Absent, detail |-> Absent,
     exc |-> e]

NoReply == [status |-> 0, answer |-> Absent, ended |-> Absent, detail |-> Absent,
            exc |-> ""]

EmptyQuestionDetail == Str(Text("Question cannot be empty."))
QuitAnswer == Str(Text("Chat ended. Refresh the page to start again."))
NoKeyDetail ==
    Str(Text("GROQ API key not found. Set GROQ_API_KEY or create api_key.env."))

QuitWord == <<"q", "u", "i", "t">>

\* a comparison without lower()
IsQuitCaseSensitive(q) == q = QuitWord
\* question.lower() == "quit"
IsQuit(q) == Lower(q) = QuitWord

\* a question taken as posted
TrimmedNot(q) == q
\* req.question.strip()
Trimmed(q) == Strip(q)

\* the detail chat gives an HTTPError with body `body`, or the exception the
\* handler itself raises
ErrorDetail(body) ==
    LET parsed == JsonLoads(body)
    IN  IF parsed.exc # "" THEN Returned(Str(Text(body)))
        ELSE IF parsed.val.t # "obj" THEN Raised("AttributeError")
        ELSE LET error == Get(parsed.val, "error", EmptyObj)
             IN  IF error.t # "obj" THEN Raised("AttributeError")
                 ELSE LET inner == Get(error, "message", Null)
                          outer == Get(parsed.val, "message", Null)
                      IN  IF Truthy(inner) THEN Returned(inner)
                          ELSE IF Truthy(outer) THEN Returned(outer)
                          ELSE Returned(Str(Text(body)))

\* except urllib.error.HTTPError
OnHTTPError(code, body) ==
    LET d == ErrorDetail(body)
    IN  IF d.exc # "" THEN Unhandled(d.exc) ELSE HttpException(code, d.val)

\* except urllib.error.URLError
OnURLError(reason) == HttpException(502, Str(<<"Network error: ", reason>>))

\* the return of call_groq reaching chat
OnCompleted(raw) ==
    LET a == ParseCompletion(raw)
    IN  IF a.exc # "" THEN Unhandled(a.exc) ELSE Success(a.val, FALSE)

-----------------------------------------------------------------------------
(* The inputs *)

SeqsUpTo(S, n) == UNION {[1..k -> S] : k \in 0..n}

\* posted questions: every short string over QChars, and the quit words
QChars == {" ", "a"}
Questions ==
    SeqsUpTo(QChars, MaxQLen)
      \cup {QuitWord, <<"Q", "U", "I", "T">>, <<" ", "Q", "u", "i", "t", "\n">>,
            <<"q", "u", "i", "t", "s">>, <<"q", "u", "i", "t", " ", "a">>,
            <<"\t", "\n">>, <<" ", "a", " ", "a", "\n">>}

GskEnv == GskPrefix \o <<"e">>
GskOne == GskPrefix \o <<"1">>
GskBare == GskPrefix \o <<"b">>

Unset == [set |-> FALSE, val |-> << >>]
SetTo(v) == [set |-> TRUE, val |-> v]
Envs == {Unset, SetTo(<< >>), SetTo(<<" ">>), SetTo(GskEnv), SetTo(<<" ">> \o GskEnv \o <<"\n">>)}

LineAssign == KeyAssign \o GskOne \o <<"\n">>
LineAssignEmpty == KeyAssign \o <<"\n">>
LineAssignQuoted == <<" ">> \o KeyAssign \o <<" ", "'", "k", "=", "2", "'", " ", "\n">>
LineBare == GskBare \o <<"\n">>
LineComment == <<" ", "#">> \o GskPrefix \o <<"c", "\n">>
LineBlank == <<" ", "\n">>
LineOther == <<"x", "=">> \o GskPrefix \o <<"o", "\n">>
LinePool ==
    {LineAssign, LineAssignEmpty, LineAssignQuoted, LineBare, LineComment,
     LineBlank, LineOther}

Missing == [exists |-> FALSE, lines |-> << >>]
FileOf(ls) == [exists |-> TRUE, lines |-> ls]
FilesUpTo(n) == {Missing} \cup {FileOf(ls) : ls \in SeqsUpTo(LinePool, n)}

\* the deployments the endpoint is run in
Configs ==
    {<<Unset, <<Missing, Missing>>>>,
     <<SetTo(<<" ">> \o GskEnv), <<FileOf(<<LineAssign>>), Missing>>>>,
     <<Unset, <<FileOf(<<LineComment, LineAssignQuoted>>), FileOf(<<LineBare>>)>>>>,
     <<SetTo(<< >>), <<Missing, FileOf(<<LineBlank, LineBare>>)>>>>,
     <<Unset, <<FileOf(<<LineAssignEmpty>>), FileOf(<<LineBare>>)>>>>,
     <<SetTo(<<" ">>), <<FileOf(<<LineAssign>>), Missing>>>>}

Reasons == {"timed out", "[Errno 111] Connection refused"}
ErrorStatuses == {400, 401, 429, 500, 503}
OkStatuses == {200, 201}
ReadExceptions == {"TimeoutError", "IncompleteRead"}

NoProvider == [phase |-> "none", status |-> 0, raw |-> "", reason |-> ""]

-----------------------------------------------------------------------------
(* The endpoint *)

Init ==
    /\ \E c \in Configs : env = c[1] /\ files = c[2]
    /\ pc = "idle"
    /\ question = << >>
    /\ apiKey = << >>
    /\ lookups = << >>
    /\ outbound = << >>
    /\ provider = NoProvider
    /\ reply = NoReply
    /\ served = 0

Accepting == pc \in {"idle", "replied"} /\ served < MaxRequests

\* chat, lines 158-160: the trimmed question is empty
ChatEmpty(q) ==
    /\ Accepting
    /\ Trimmed(q) = << >>
    /\ question' = q
    /\ reply' = HttpException(400, EmptyQuestionDetail)
    /\ pc' = "replied"
    /\ served' = served + 1
    /\ apiKey' = << >> /\ lookups' = << >> /\ outbound' = << >>
    /\ provider' = NoProvider
    /\ UNCHANGED <<env, files>>

\* chat, lines 161-162: the trimmed question is the quit word
ChatQuit(q) ==
    /\ Accepting
    /\ Trimmed(q) # << >>
    /\ IsQuit(Trimmed(q))
    /\ question' = q
    /\ reply' = Success(QuitAnswer, TRUE)
    /\ pc' = "replied"
    /\ served' = served + 1
    /\ apiKey' = << >> /\ lookups' = << >> /\ outbound' = << >>
    /\ provider' = NoProvider
    /\ UNCHANGED <<env, files>>

\* a call_groq without the key check of lines 45-49
ChatNoKeySendsAnyway(q) ==
    /\ Accepting
    /\ Trimmed(q) # << >>
    /\ ~IsQuit(Trimmed(q))
    /\ LET k == LoadApiKey(env, files)
       IN  /\ k.key = << >>
           /\ lookups' = <<k>>
           /\ apiKey' = k.key
           /\ outbound' = <<BuildRequest(Trimmed(q), k.key)>>
    /\ question' = q
    /\ reply' = NoReply
    /\ pc' = "urlopen"
    /\ provider' = NoProvider
    /\ UNCHANGED <<env, files, served>>

\* chat into call_groq, lines 44-49: no key, HTTPException(500) passes through
\* chat's handlers
ChatNoKey(q) ==
    /\ Accepting
    /\ Trimmed(q) # << >>
    /\ ~IsQuit(Trimmed(q))
    /\ LET k == LoadApiKey(env, files)
       IN  /\ k.key = << >>
           /\ lookups' = <<k>>
           /\ apiKey' = k.key
    /\ question' = q
    /\ reply' = HttpException(500, NoKeyDetail)
    /\ pc' = "replied"
    /\ served' = served + 1
    /\ outbound' = << >>
    /\ provider' = NoProvider
    /\ UNCHANGED <<env, files>>

\* chat into call_groq, lines 44-75: the request is built and handed to urlopen
ChatCall(q) ==
    /\ Accepting
    /\ Trimmed(q) # << >>
    /\ ~IsQuit(Trimmed(q))
    /\ LET k == LoadApiKey(env, files)
       IN  /\ k.key # << >>
           /\ lookups' = <<k>>
           /\ apiKey' = k.key
           /\ outbound' = <<BuildRequest(Trimmed(q), k.key)>>
    /\ question' = q
    /\ reply' = NoReply
    /\ pc' = "urlopen"
    /\ provider' = NoProvider
    /\ UNCHANGED <<env, files, served>>

\* a handler that sends the request again after a URLError
UrlopenURLErrorRetry(reason) ==
    /\ pc = "urlopen"
    /\ Len(outbound) < 3
    /\ outbound' = Append(outbound, outbound[1])
    /\ UNCHANGED <<env, files, pc, question, apiKey, lookups, provider, reply, served>>

\* urlopen raises URLError (DNS, TLS, refused, connect timeout): line 176
UrlopenURLError(reason) ==
    /\ pc = "urlopen"
    /\ provider' = [NoProvider EXCEPT !.phase = "urlerror", !.reason = reason]
    /\ reply' = OnURLError(reason)
    /\ pc' = "replied"
    /\ served' = served + 1
    /\ UNCHANGED <<env, files, question, apiKey, lookups, outbound>>

\* urlopen raises HTTPError for a non-2xx response: lines 167-175
UrlopenHTTPError(code, body) ==
    /\ pc = "urlopen"
    /\ provider' = [NoProvider EXCEPT !.phase = "httperror", !.status = code, !.raw = body]
    /\ reply' = OnHTTPError(code, body)
    /\ pc' = "replied"
    /\ served' = served + 1
    /\ UNCHANGED <<env, files, question, apiKey, lookups, outbound>>

\* urlopen returns the 2xx response: line 75
UrlopenReturns(code) ==
    /\ pc = "urlopen"
    /\ provider' = [NoProvider EXCEPT !.phase = "headers", !.status = code]
    /\ pc' = "read"
    /\ UNCHANGED <<env, files, question, apiKey, lookups, outbound, reply, served>>

\* response.read() raises (the socket times out or closes mid body): the
\* exception is no URLError, so no handler of chat catches it
ReadRaises(e) ==
    /\ pc = "read"
    /\ provider' = [provider EXCEPT !.phase = "readfail", !.reason = e]
    /\ reply' = Unhandled(e)
    /\ pc' = "replied"
    /\ served' = served + 1
    /\ UNCHANGED <<env, files, question, apiKey, lookups, outbound>>

\* response.read() returns the body: lines 76-81, 166
ReadReturns(raw) ==
    /\ pc = "read"
    /\ provider' = [provider EXCEPT !.phase = "body", !.raw = raw]
    /\ reply' = OnCompleted(raw)
    /\ pc' = "replied"
    /\ served' = served + 1
    /\ UNCHANGED <<env, files, question, apiKey, lookups, outbound>>

Next ==
    \/ \E q \in Questions : ChatEmpty(q)
    \/ \E q \in Questions : ChatQuit(q)
    \/ \E q \in Questions : ChatNoKey(q)
    \/ \E q \in Questions : ChatCall(q)
    \/ \E r \in Reasons : UrlopenURLError(r)
    \/ \E c \in ErrorStatuses, b \in Bodies : UrlopenHTTPError(c, b)
    \/ \E c \in OkStatuses : UrlopenReturns(c)
    \/ \E e \in ReadExceptions : ReadRaises(e)
    \/ \E b \in Bodies : ReadReturns(b)

Spec == Init /\ [][Next]_vars

-----------------------------------------------------------------------------
(* The credential lookup on its own *)

InitKey ==
    /\ env \in Envs
    /\ files \in FilesUpTo(MaxLines) \X FilesUpTo(MaxLines - 1)
    /\ pc = "idle"
    /\ question = << >>
    /\ apiKey = << >>
    /\ lookups = << >>
    /\ outbound = << >>
    /\ provider = NoProvider
    /\ reply = NoReply
    /\ served = 0

\* one call of load_api_key()
KeyLookup ==
    /\ pc = "idle"
    /\ LET k == LoadApiKey(env, files)
       IN  lookups' = <<k>> /\ apiKey' = k.key
    /\ pc' = "looked"
    /\ UNCHANGED <<env, files, question, outbound, provider, reply, served>>

NextKey == KeyLookup

SpecKey == InitKey /\ [][NextKey]_vars

-----------------------------------------------------------------------------
(* Properties *)

Replied == pc = "replied"
NonEmptyText(v) == v.t = "str" /\ v.v # << >>
Forwardable(q) == Strip(q) # << >> /\ Lower(Strip(q)) # QuitWord
KeyAvailable == LoadApiKey(env, files).key # << >>
PayloadKeys ==
    {"messages", "model", "temperature", "max_completion_tokens", "top_p",
     "stream", "reasoning_effort", "stop"}

\* C1: a forwardable question (non-empty after trimming, not the quit word)
\* with a key available is sent as one POST whose body has exactly the two
\* messages, framing first and the trimmed question second, and every other
\* field at its fixed value.
C1_PayloadShape ==
    (pc # "idle" /\ Forwardable(question) /\ KeyAvailable) =>
        /\ Len(outbound) = 1
        /\ outbound[1].method = "POST"
        /\ outbound[1].url = "https://api.groq.com/openai/v1/chat/completions"
        /\ LET body == outbound[1].data
               m == body.v.messages
           IN  /\ body.t = "obj"
               /\ DOMAIN body.v = PayloadKeys
               /\ m.t = "arr" /\ Len(m.v) = 2
               /\ DOMAIN m.v[1].v = {"role", "content"}
               /\ m.v[1].v.content = Str(<<"Be a straightforward assistant">>)
               /\ m.v[2] = Obj([role |-> Str(<<"user">>),
                                content |-> Str(Strip(question))])
               /\ body.v.temperature = Num(1)
               /\ body.v.max_completion_tokens = Num(8192)
               /\ body.v.top_p = Num(1)
               /\ body.v.stream = Bool(FALSE)
               /\ body.v.reasoning_effort = Str(<<"medium">>)
               /\ body.v.stop = Null

C1_Witness ==
    /\ pc = "urlopen"
    /\ question = <<" ", "a", " ", "a", "\n">>
    /\ Len(outbound) = 1

ParsedRaw == JsonLoads(provider.raw)
ChoicesOf(data) == IF "choices" \in DOMAIN data.v THEN data.v.choices ELSE Arr(<< >>)
NoChoices ==
    /\ Replied /\ provider.phase = "body"
    /\ ParsedRaw.exc = "" /\ ParsedRaw.val.t = "obj"
    /\ ChoicesOf(ParsedRaw.val) = Arr(<< >>)

\* C3 as stated: HTTP 200 with an empty or missing choices sequence is a
\* Success whose text contains the raw response content.
C3_EmbedsRawResponse ==
    (NoChoices /\ provider.status = 200) =>
        /\ reply.status = 200
        /\ reply.answer.t = "str"
        /\ \E i \in 1..Len(reply.answer.v) : reply.answer.v[i] = provider.raw

\* C3 amended: HTTP 200 with an empty or missing choices sequence is a
\* Success whose text is exactly "No response choices returned.", ended false.
C3_FixedPlaceholder ==
    (NoChoices /\ provider.status = 200) =>
        /\ reply.status = 200
        /\ reply.exc = ""
        /\ reply.answer = Str(<<"No response choices returned.">>)
        /\ reply.ended = Bool(FALSE)
        /\ reply.detail = Absent

C3_Witness ==
    /\ NoChoices /\ provider.status = 200
    /\ provider.raw = BodyNoChoices

\* choices[0] is an object whose message is missing or an object
FirstChoiceReadable ==
    /\ Replied /\ provider.phase = "body"
    /\ ParsedRaw.exc = "" /\ ParsedRaw.val.t = "obj"
    /\ ChoicesOf(ParsedRaw.val).t = "arr"
    /\ Len(ChoicesOf(ParsedRaw.val).v) > 0
    /\ LET first == ChoicesOf(ParsedRaw.val).v[1]
       IN  /\ first.t = "obj"
           /\ "message" \in DOMAIN first.v => first.v.message.t = "obj"
FirstContent ==
    LET first == ChoicesOf(ParsedRaw.val).v[1]
    IN  IF "message" \in DOMAIN first.v /\ "content" \in DOMAIN first.v.message.v
        THEN first.v.message.v.content
        ELSE Absent

HasNestedMessage(raw) ==
    LET p == JsonLoads(raw)
    IN  /\ p.exc = "" /\ p.val.t = "obj"
        /\ "error" \in DOMAIN p.val.v /\ p.val.v.error.t = "obj"
        /\ "message" \in DOMAIN p.val.v.error.v
        /\ NonEmptyText(p.val.v.error.v.message)
NestedMessage(raw) == JsonLoads(raw).val.v.error.v.message

\* C5 as stated: a non-2xx response with status s and body b is answered
\* with status s and a detail that is the nested error.message of b when
\* there is a non-empty one, and b itself for every other body.
C5_StatusAndDetail ==
    (Replied /\ provider.phase = "httperror") =>
        /\ reply.status = provider.status
        /\ reply.exc = "HTTPException"
        /\ reply.detail = IF HasNestedMessage(provider.raw)
                          THEN NestedMessage(provider.raw)
                          ELSE Str(Text(provider.raw))

\* C6 as stated: every transport failure of the outbound call, a timeout
\* while the body is read included, is answered 502 with a detail carrying
\* the reason.
C6_TransportFailureIs502 ==
    (Replied /\ provider.phase \in {"urlerror", "readfail"}) =>
        /\ reply.status = 502
        /\ reply.exc = "HTTPException"
        /\ NonEmptyText(reply.detail)
        /\ \E i \in 1..Len(reply.detail.v) : reply.detail.v[i] = provider.reason

\* C7: a question that trims to "quit" in any letter case is answered with a
\* non-empty answer and ended = true, without a provider call or a key
\* lookup; every other success body has ended = false.
C7_QuitShortCircuit ==
    Replied =>
        /\ Lower(Strip(question)) = QuitWord =>
               /\ reply.status = 200
               /\ NonEmptyText(reply.answer)
               /\ reply.ended = Bool(TRUE)
               /\ outbound = << >> /\ lookups = << >>
               /\ provider.phase = "none"
        /\ (Lower(Strip(question)) # QuitWord /\ reply.answer # Absent) =>
               reply.ended = Bool(FALSE)

C7_Witness ==
    /\ Replied
    /\ question = <<" ", "Q", "u", "i", "t", "\n">>
    /\ reply.ended = Bool(TRUE)

\* C8: an empty or whitespace-only question is answered 400 with a
\* non-empty detail and no provider call.
C8_EmptyQuestionIs400 ==
    (Replied /\ Strip(question) = << >>) =>
        /\ reply.status = 400
        /\ NonEmptyText(reply.detail)
        /\ reply.answer = Absent
        /\ outbound = << >>
        /\ provider.phase = "none"

C8_Witness ==
    /\ Replied
    /\ question = <<"\t", "\n">>
    /\ reply.status = 400

\* C9: with no key available a forwardable question is answered 500 with a
\* non-empty detail before any provider call; no request ever carries an
\* empty key; and the endpoint goes on accepting requests.
C9_NoKeyIs500 ==
    /\ (pc # "idle" /\ Forwardable(question) /\ ~KeyAvailable) =>
           /\ Replied
           /\ reply.status = 500
           /\ reply.exc = "HTTPException"
           /\ NonEmptyText(reply.detail)
           /\ outbound = << >>
           /\ provider.phase = "none"
           /\ served < MaxRequests => ENABLED Next
    /\ \A i \in 1..Len(outbound) :
           Len(outbound[i].headers.Authorization) > Len(Bearer)

C9_Witness ==
    /\ Replied
    /\ env = SetTo(<<" ">>)
    /\ Forwardable(question)
    /\ reply.status = 500
    /\ served < MaxRequests

\* the lines of the key files in scan order, as <<file, line>> positions
Positions ==
    {p \in (1..2) \X (1..(MaxLines + 1)) :
        files[p[1]].exists /\ p[2] <= Len(files[p[1]].lines)}
Before(p, r) == p[1] < r[1] \/ (p[1] = r[1] /\ p[2] <= r[2])
LineAt(p) == Strip(files[p[1]].lines[p[2]])
Matching ==
    {p \in Positions :
        /\ LineAt(p) # << >>
        /\ Head(LineAt(p)) # "#"
        /\ StartsWith(LineAt(p), KeyAssign) \/ StartsWith(LineAt(p), GskPrefix)}
FirstMatch == CHOOSE p \in Matching : \A r \in Matching : Before(p, r)
ValueAt(p) ==
    IF StartsWith(LineAt(p), KeyAssign)
    THEN StripChars(Strip(SubSeq(LineAt(p), Len(KeyAssign) + 1, Len(LineAt(p)))), Quotes)
    ELSE LineAt(p)
LinesOf(f) == IF files[f].exists THEN Len(files[f].lines) ELSE 0
\* the lines read of each file by a scan that stops at position m
ReadsUpTo(m) == IF m[1] = 1 THEN <<m[2], 0>> ELSE <<LinesOf(1), m[2]>>

\* C10 as stated: the lookup returns GROQ_API_KEY when it is set, otherwise
\* the value of the first matching line of api_key.env then .env, reading no
\* line after it, and returns the empty string only when nothing matches.
C10_EmptyOnlyWhenNothingMatches ==
    pc = "looked" =>
        LET k == lookups[1]
        IN  /\ env.set => k.key = env.val /\ k.reads = <<0, 0>>
            /\ (~env.set /\ Matching # {}) =>
                   k.key = ValueAt(FirstMatch) /\ k.reads = ReadsUpTo(FirstMatch)
            /\ k.key = << >> => (~env.set /\ Matching = {})

\* C10 amended: the lookup returns the trimmed GROQ_API_KEY when it is set
\* and not empty, otherwise the value (trimmed, surrounding quotes removed)
\* of the first matching line of api_key.env then .env, reading no line
\* after it; the empty string is returned when nothing matches or when the
\* winning value is itself empty after trimming.
C10_FirstMatchWins ==
    pc = "looked" =>
        LET k == lookups[1]
            fromEnv == env.set /\ env.val # << >>
        IN  /\ fromEnv => k.key = Strip(env.val) /\ k.reads = <<0, 0>>
            /\ (~fromEnv /\ Matching # {}) =>
                   k.key = ValueAt(FirstMatch) /\ k.reads = ReadsUpTo(FirstMatch)
            /\ (~fromEnv /\ Matching = {}) =>
                   k.key = << >> /\ k.reads = <<LinesOf(1), LinesOf(2)>>
            /\ apiKey = k.key

C10_Witness ==
    /\ pc = "looked"
    /\ env = SetTo(<< >>)
    /\ files = <<FileOf(<<LineComment, LineAssignEmpty>>), FileOf(<<LineBare>>)>>
    /\ lookups[1].key = << >>
    /\ lookups[1].reads = <<2, 0>>

====
